---- MODULE Spec2Model ----
(***************************************************************************)
(* Cauchemar: the compiler (compile_cauchemar_program / compile_routine)   *)
(* and the virtual machine (run_vm, binop, the native routines) of         *)
(* src/main.rs, as a state machine.  One step of the machine is one        *)
(* iteration of run_vm's loop.                                             *)
(***************************************************************************)
EXTENDS Integers, Sequences, FiniteSets, TLC

VARIABLES
    program,          \* CauchemarProgram.routines: routine name -> command list
    overflow_checks,  \* build profile: TRUE = arithmetic overflow panics, FALSE = it wraps
    routines,         \* CauchemarVM.routines: name -> Native | User(instructions)
    ip,               \* CauchemarVM.ip: the frame stack, <<name, index>>, top last
    stack,            \* CauchemarVM.stack: the value stack, top last
    out,              \* the lines written to standard output by println!
    status,           \* "loaded", "running", "halted", or the panic message
    trace,            \* history: one record per iteration of run_vm's loop
    ast_frames,       \* reference interpreter: pending work of each activation
    ast_stack,        \* reference interpreter: value stack
    ast_out,          \* reference interpreter: output lines
    ast_status,       \* reference interpreter: "idle", "running", "halted", panic message
    ast_steps         \* reference interpreter: steps taken

vars == <<program, overflow_checks, routines, ip, stack, out, status, trace,
          ast_frames, ast_stack, ast_out, ast_status, ast_steps>>

vm_vars == <<program, overflow_checks, routines, ip, stack, out, status, trace>>

ast_vars == <<ast_frames, ast_stack, ast_out, ast_status, ast_steps>>

----------------------------------------------------------------------------
(* Bounds of the model.                                                    *)

\* Largest starting counter of the counting-loop and recursion programs.
MaxN == 3

\* Longest command list of the programs enumerated over GenCommands.
MaxLen == 3

\* Iterations of run_vm's loop explored per run (cuts non-terminating programs).
MaxSteps == 120

----------------------------------------------------------------------------
(* Values, commands, instructions.                                         *)

I32_MAX == 2147483647

I32_MIN == -I32_MAX - 1

\* enum CauchemarVMValue
Number(n) == [t |-> "Number", n |-> n]

Bool(b) == [t |-> "Bool", b |-> b]

String(s) == [t |-> "String", s |-> s]

\* impl Display for CauchemarVMValue
to_string(v) ==
    CASE v.t = "Number" -> ToString(v.n)
      [] v.t = "Bool" -> IF v.b THEN "TRUE" ELSE "FALSE"
      [] v.t = "String" -> v.s

\* enum CauchemarAST
AstNumber(n) == [k |-> "Number", n |-> n]

AstBool(b) == [k |-> "Bool", b |-> b]

AstString(s) == [k |-> "String", s |-> s]

Identifier(s) == [k |-> "Identifier", s |-> s]

If(then, otherwise) == [k |-> "If", then |-> then, otherwise |-> otherwise]

While(body) == [k |-> "While", body |-> body]

AstAdd == [k |-> "Add"]

AstSub == [k |-> "Sub"]

AstMul == [k |-> "Mul"]

AstDiv == [k |-> "Div"]

\* enum CauchemarVMInstruction
Push(v) == [op |-> "Push", v |-> v]

Call(r) == [op |-> "Call", r |-> r]

Jump(pos) == [op |-> "Jump", pos |-> pos]

JumpIfFalse(pos) == [op |-> "JumpIfFalse", pos |-> pos]

Add == [op |-> "Add"]

Sub == [op |-> "Sub"]

Mul == [op |-> "Mul"]

Div == [op |-> "Div"]

Return == [op |-> "Return"]

Nop == [op |-> "Nop"]

\* Vec::pop leaves all but the last element.
Front(s) == SubSeq(s, 1, Len(s) - 1)

Last(s) == s[Len(s)]

\* instructions[i] = x for a 0-based index i.
SetAt(instructions, i, x) == [instructions EXCEPT ![i + 1] = x]

----------------------------------------------------------------------------
(* i32 arithmetic.  The exact result is never formed when it does not fit  *)
(* in 32 bits: overflow is decided first, the wrapped result is computed   *)
(* from in-range parts.                                                    *)

add_overflows(a, b) ==
    \/ b > 0 /\ a > I32_MAX - b
    \/ b < 0 /\ a < I32_MIN - b

wrapping_add(a, b) ==
    IF ~add_overflows(a, b) THEN a + b
    ELSE IF b > 0 THEN (a + I32_MIN) + (b + I32_MIN)
    ELSE (a - I32_MIN) + (b - I32_MIN)

sub_overflows(a, b) ==
    \/ b < 0 /\ a > I32_MAX + b
    \/ b > 0 /\ a < I32_MIN + b

wrapping_sub(a, b) ==
    IF ~sub_overflows(a, b) THEN a - b
    ELSE IF b < 0 THEN (a + I32_MIN) - (b - I32_MIN)
    ELSE (a - I32_MIN) - (b + I32_MIN)

\* The least integer >= x / y, for y > 0.
CeilDiv(x, y) == (x \div y) + (IF x % y = 0 THEN 0 ELSE 1)

mul_overflows(a, b) ==
    IF a = 0 \/ b = 0 THEN FALSE
    ELSE IF a > 0 /\ b > 0 THEN a > I32_MAX \div b
    ELSE IF a > 0 /\ b < 0 THEN b < CeilDiv(I32_MIN, a)
    ELSE IF a < 0 /\ b > 0 THEN a < CeilDiv(I32_MIN, b)
    ELSE IF a = I32_MIN \/ b = I32_MIN THEN TRUE
    ELSE (-a) > I32_MAX \div (-b)

\* The low and the high 16 bits of the two's complement of a.
lo16(a) == a % 65536

hi16(a) == (a \div 65536) % 65536

\* The low 16 bits of x * y, for x and y of 16 bits.
mul16_lo(x, y) == (x * (y % 256) + ((x * (y \div 256)) % 256) * 256) % 65536

\* a * b modulo 2^32 as an i32, from products of 16 by 8 bits.
wrapping_mul(a, b) ==
    LET p0 == lo16(a) * (lo16(b) % 256)
        p1 == lo16(a) * (lo16(b) \div 256)
        low == p0 + (p1 % 256) * 256
        high == (low \div 65536 + p1 \div 256 + mul16_lo(hi16(a), lo16(b))
                    + mul16_lo(lo16(a), hi16(b))) % 65536
    IN  (IF high >= 32768 THEN high - 65536 ELSE high) * 65536 + (low % 65536)

\* Faulty variant: the quotient rounded down, not toward zero.
div_floor(a, b) == a \div b

\* i32 `/` for b # 0 and not (a = MIN and b = -1): the quotient truncated toward zero.
div_trunc(a, b) ==
    IF b = I32_MIN THEN (IF a = I32_MIN THEN 1 ELSE 0)
    ELSE IF b > 0 THEN (IF a >= 0 THEN a \div b ELSE CeilDiv(a, b))
    ELSE IF a <= 0 THEN -CeilDiv(a, -b)
    ELSE -(a \div (-b))

\* Faulty variant: a zero divisor yields 0.
i32_op_zero_divisor(op, a, b, checks) ==
    CASE op = "Add" ->
           IF add_overflows(a, b) /\ checks
           THEN [panic |-> "attempt to add with overflow"]
           ELSE [panic |-> "", val |-> wrapping_add(a, b)]
      [] op = "Sub" ->
           IF sub_overflows(a, b) /\ checks
           THEN [panic |-> "attempt to subtract with overflow"]
           ELSE [panic |-> "", val |-> wrapping_sub(a, b)]
      [] op = "Mul" ->
           IF mul_overflows(a, b) /\ checks
           THEN [panic |-> "attempt to multiply with overflow"]
           ELSE [panic |-> "", val |-> wrapping_mul(a, b)]
      [] op = "Div" ->
           IF b = 0 THEN [panic |-> "", val |-> 0]
           ELSE IF a = I32_MIN /\ b = -1
           THEN [panic |-> "attempt to divide with overflow"]
           ELSE [panic |-> "", val |-> div_trunc(a, b)]

\* The closures |a, b| a + b, a - b, a * b, a / b that run_vm hands to binop:
\* the value, or the panic of the i32 operator.  Overflow of + - * panics when
\* the build checks overflow and wraps otherwise; / panics on a zero divisor
\* and on MIN / -1 in every build.
i32_op(op, a, b, checks) ==
    CASE op = "Add" ->
           IF add_overflows(a, b) /\ checks
           THEN [panic |-> "attempt to add with overflow"]
           ELSE [panic |-> "", val |-> wrapping_add(a, b)]
      [] op = "Sub" ->
           IF sub_overflows(a, b) /\ checks
           THEN [panic |-> "attempt to subtract with overflow"]
           ELSE [panic |-> "", val |-> wrapping_sub(a, b)]
      [] op = "Mul" ->
           IF mul_overflows(a, b) /\ checks
           THEN [panic |-> "attempt to multiply with overflow"]
           ELSE [panic |-> "", val |-> wrapping_mul(a, b)]
      [] op = "Div" ->
           IF b = 0 THEN [panic |-> "attempt to divide by zero"]
           ELSE IF a = I32_MIN /\ b = -1
           THEN [panic |-> "attempt to divide with overflow"]
           ELSE [panic |-> "", val |-> div_trunc(a, b)]

\* Faulty variant: the first value popped is taken as the left operand.
binop_swapped(st, op, checks) ==
    IF st = <<>> THEN [stack |-> st, panic |-> "Stack underflow"]
    ELSE IF Last(st).t # "Number" THEN [stack |-> Front(st), panic |-> "Invalid type"]
    ELSE IF Front(st) = <<>> THEN [stack |-> <<>>, panic |-> "Stack underflow"]
    ELSE IF Last(Front(st)).t # "Number"
    THEN [stack |-> Front(Front(st)), panic |-> "Invalid type"]
    ELSE LET r == i32_op(op, Last(st).n, Last(Front(st)).n, checks)
         IN  IF r.panic # "" THEN [stack |-> Front(Front(st)), panic |-> r.panic]
             ELSE [stack |-> Append(Front(Front(st)), Number(r.val)), panic |-> ""]

\* Faulty variant: a second operand of the wrong variant is reported as a missing one.
binop_second_unchecked(st, op, checks) ==
    IF st = <<>> THEN [stack |-> st, panic |-> "Stack underflow"]
    ELSE IF Last(st).t # "Number" THEN [stack |-> Front(st), panic |-> "Invalid type"]
    ELSE IF Front(st) = <<>> \/ Last(Front(st)).t # "Number"
    THEN [stack |-> Front(Front(st)), panic |-> "Stack underflow"]
    ELSE LET r == i32_op(op, Last(Front(st)).n, Last(st).n, checks)
         IN  IF r.panic # "" THEN [stack |-> Front(Front(st)), panic |-> r.panic]
             ELSE [stack |-> Append(Front(Front(st)), Number(r.val)), panic |-> ""]

\* Faulty variant: the values are counted before any is looked at.
binop_counting_first(st, op, checks) ==
    IF Len(st) < 2 THEN [stack |-> <<>>, panic |-> "Stack underflow"]
    ELSE IF Last(st).t # "Number" THEN [stack |-> Front(st), panic |-> "Invalid type"]
    ELSE IF Last(Front(st)).t # "Number"
    THEN [stack |-> Front(Front(st)), panic |-> "Invalid type"]
    ELSE LET r == i32_op(op, Last(Front(st)).n, Last(st).n, checks)
         IN  IF r.panic # "" THEN [stack |-> Front(Front(st)), panic |-> r.panic]
             ELSE [stack |-> Append(Front(Front(st)), Number(r.val)), panic |-> ""]

\* fn binop: the value stack and the panic ("" = none) it leaves.
binop(st, op, checks) ==
    IF st = <<>> THEN [stack |-> st, panic |-> "Stack underflow"]
    ELSE IF Last(st).t # "Number" THEN [stack |-> Front(st), panic |-> "Invalid type"]
    ELSE
      LET b == Last(st).n
          st1 == Front(st)
      IN  IF st1 = <<>> THEN [stack |-> st1, panic |-> "Stack underflow"]
          ELSE IF Last(st1).t # "Number" THEN [stack |-> Front(st1), panic |-> "Invalid type"]
          ELSE
            LET a == Last(st1).n
                st2 == Front(st1)
                r == i32_op(op, a, b, checks)
            IN  IF r.panic # "" THEN [stack |-> st2, panic |-> r.panic]
                ELSE [stack |-> Append(st2, Number(r.val)), panic |-> ""]

----------------------------------------------------------------------------
(* The native routines.  Each yields the value stack it leaves, the lines  *)
(* it prints and its panic ("" = none); a panic keeps the pops made so far.*)

Ok(st, lines) == [stack |-> st, lines |-> lines, panic |-> ""]

Panic(st, msg) == [stack |-> st, lines |-> <<>>, panic |-> msg]

\* n pops of any value: all n succeed, or the stack runs empty and the native panics.
Underflows(st, n) == Len(st) < n

\* The value i places below the top (0 = the top).
Peek(st, i) == st[Len(st) - i]

DropN(st, n) == SubSeq(st, 1, Len(st) - n)

\* Two pops that each require variant t (OR, AND, number_comparison): the
\* stack they leave and the panic ("" = none) of the first pop that fails.
pop2_typed(st, t) ==
    IF st = <<>> THEN [stack |-> st, panic |-> "Stack underflow"]
    ELSE IF Last(st).t # t THEN [stack |-> Front(st), panic |-> "Invalid type"]
    ELSE IF Front(st) = <<>> THEN [stack |-> <<>>, panic |-> "Stack underflow"]
    ELSE IF Peek(st, 1).t # t THEN [stack |-> DropN(st, 2), panic |-> "Invalid type"]
    ELSE [stack |-> DropN(st, 2), panic |-> ""]

\* One pop that requires a Bool (NOT, ASSERT).
pop_bool_panic(st) ==
    IF st = <<>> THEN "Stack underflow"
    ELSE IF Last(st).t # "Bool" THEN "Invalid type"
    ELSE ""

native_PRINT(st) ==
    IF st = <<>> THEN Panic(st, "Stack underflow")
    ELSE Ok(Front(st), <<to_string(Last(st))>>)

\* vm.stack.pop() with the Option discarded: nothing happens on an empty stack.
native_DROP(st) == Ok(IF st = <<>> THEN st ELSE Front(st), <<>>)

native_DUP(st) ==
    IF st = <<>> THEN Panic(st, "Stack underflow")
    ELSE Ok(Append(Append(Front(st), Last(st)), Last(st)), <<>>)

native_SWAP(st) ==
    IF Underflows(st, 2) THEN Panic(<<>>, "Stack underflow")
    ELSE LET a == Peek(st, 0)
             b == Peek(st, 1)
         IN  Ok(DropN(st, 2) \o <<a, b>>, <<>>)

\* Faulty variant: the rotation goes the other way (a, c, b are pushed).
native_ROT_other_way(st) ==
    IF Underflows(st, 3) THEN Panic(<<>>, "Stack underflow")
    ELSE LET a == Peek(st, 0)
             b == Peek(st, 1)
             c == Peek(st, 2)
         IN  Ok(DropN(st, 3) \o <<a, c, b>>, <<>>)

native_ROT(st) ==
    IF Underflows(st, 3) THEN Panic(<<>>, "Stack underflow")
    ELSE LET a == Peek(st, 0)
             b == Peek(st, 1)
             c == Peek(st, 2)
         IN  Ok(DropN(st, 3) \o <<b, a, c>>, <<>>)

native_OVER(st) ==
    IF Underflows(st, 2) THEN Panic(<<>>, "Stack underflow")
    ELSE LET a == Peek(st, 0)
             b == Peek(st, 1)
         IN  Ok(DropN(st, 2) \o <<b, a, b>>, <<>>)

\* #[derive(PartialEq)]: values of different variants are unequal.
native_EQUALS(st) ==
    IF Underflows(st, 2) THEN Panic(<<>>, "Stack underflow")
    ELSE Ok(Append(DropN(st, 2), Bool(Peek(st, 0) = Peek(st, 1))), <<>>)

native_NOT(st) ==
    IF pop_bool_panic(st) # "" THEN Panic(IF st = <<>> THEN st ELSE Front(st), pop_bool_panic(st))
    ELSE Ok(Append(Front(st), Bool(~Last(st).b)), <<>>)

native_OR(st) ==
    LET p == pop2_typed(st, "Bool")
    IN  IF p.panic # "" THEN Panic(p.stack, p.panic)
        ELSE Ok(Append(p.stack, Bool(Peek(st, 0).b \/ Peek(st, 1).b)), <<>>)

native_AND(st) ==
    LET p == pop2_typed(st, "Bool")
    IN  IF p.panic # "" THEN Panic(p.stack, p.panic)
        ELSE Ok(Append(p.stack, Bool(Peek(st, 0).b /\ Peek(st, 1).b)), <<>>)

\* The closures |a, b| a > b, a >= b, a < b, a <= b.
compare(cmp, a, b) ==
    CASE cmp = "GREATER-THAN" -> a > b
      [] cmp = "GREATER-EQUAL" -> a >= b
      [] cmp = "LESS-THAN" -> a < b
      [] cmp = "LESS-EQUAL" -> a <= b

\* Faulty variant: the first value popped is compared as the left operand.
number_comparison_swapped(st, cmp) ==
    LET p == pop2_typed(st, "Number")
    IN  IF p.panic # "" THEN Panic(p.stack, p.panic)
        ELSE LET b == Peek(st, 0).n
                 a == Peek(st, 1).n
             IN  Ok(Append(p.stack, Bool(compare(cmp, b, a))), <<>>)

\* fn number_comparison: the first pop is b (right), the second a (left).
number_comparison(st, cmp) ==
    LET p == pop2_typed(st, "Number")
    IN  IF p.panic # "" THEN Panic(p.stack, p.panic)
        ELSE LET b == Peek(st, 0).n
                 a == Peek(st, 1).n
             IN  Ok(Append(p.stack, Bool(compare(cmp, a, b))), <<>>)

native_ASSERT(st) ==
    IF pop_bool_panic(st) # "" THEN Panic(IF st = <<>> THEN st ELSE Front(st), pop_bool_panic(st))
    ELSE IF ~Last(st).b THEN Panic(Front(st), "Assertion failed")
    ELSE Ok(Front(st), <<>>)

Comparisons == {"GREATER-THAN", "GREATER-EQUAL", "LESS-THAN", "LESS-EQUAL"}

\* The names compile_cauchemar_program inserts as CauchemarVMRoutine::Native.
NativeNames ==
    {"PRINT", "DROP", "DUP", "SWAP", "ROT", "OVER", "EQUALS", "NOT", "OR", "AND", "ASSERT"}
        \cup Comparisons

\* native(vm) of the Native routine stored under `name`.
native(name, st) ==
    CASE name = "PRINT" -> native_PRINT(st)
      [] name = "DROP" -> native_DROP(st)
      [] name = "DUP" -> native_DUP(st)
      [] name = "SWAP" -> native_SWAP(st)
      [] name = "ROT" -> native_ROT(st)
      [] name = "OVER" -> native_OVER(st)
      [] name = "EQUALS" -> native_EQUALS(st)
      [] name = "NOT" -> native_NOT(st)
      [] name = "OR" -> native_OR(st)
      [] name = "AND" -> native_AND(st)
      [] name = "ASSERT" -> native_ASSERT(st)
      [] name \in Comparisons -> number_comparison(st, name)

----------------------------------------------------------------------------
(* The compiler.  Jump positions are 0-based indices into the routine's    *)
(* instruction list, as in the source.                                     *)

\* Faulty variant: the JumpIfFalse of an If is aimed at the Jump, not past it.
if_false_jump_at_jump(end_jump_index) == end_jump_index

\* let false_jump = end_jump_index + 1;
if_false_jump(end_jump_index) == end_jump_index + 1

\* Faulty variant: the Jump of an If is aimed one instruction before the Nop.
if_end_jump_early(instructions) == Len(instructions) - 2

\* let end_jump = instructions.len() - 1;  (after the Nop was pushed)
if_end_jump(instructions) == Len(instructions) - 1

\* Faulty variant: the loop start is taken one instruction late.
while_start_index_late(instructions) == Len(instructions) + 1

\* let start_index = instructions.len();
while_start_index(instructions) == Len(instructions)

\* let false_jump = instructions.len() - 1;  (after the Nop was pushed)
while_false_jump(instructions) == Len(instructions) - 1

RECURSIVE compile_routine(_, _)
\* fn compile_routine: `instructions` with the code of the commands of `routine` appended.
compile_routine(instructions, routine) ==
    IF routine = <<>> THEN instructions
    ELSE
      LET command == Head(routine)
          compiled ==
            CASE command.k = "Number" -> Append(instructions, Push(Number(command.n)))
              [] command.k = "Bool" -> Append(instructions, Push(Bool(command.b)))
              [] command.k = "String" -> Append(instructions, Push(String(command.s)))
              [] command.k = "Identifier" -> Append(instructions, Call(command.s))
              [] command.k = "If" ->
                   LET i1 == Append(instructions, JumpIfFalse(0))
                       false_jump_index == Len(i1) - 1
                       i2 == Append(compile_routine(i1, command.then), Jump(0))
                       end_jump_index == Len(i2) - 1
                       false_jump == if_false_jump(end_jump_index)
                       i3 == Append(compile_routine(i2, command.otherwise), Nop)
                       end_jump == if_end_jump(i3)
                       i4 == SetAt(i3, false_jump_index, JumpIfFalse(false_jump))
                   IN  SetAt(i4, end_jump_index, Jump(end_jump))
              [] command.k = "While" ->
                   LET start_index == while_start_index(instructions)
                       i1 == Append(compile_routine(instructions, command.body), JumpIfFalse(0))
                       false_jump_index == Len(i1) - 1
                       i2 == Append(Append(i1, Jump(start_index)), Nop)
                       false_jump == while_false_jump(i2)
                   IN  SetAt(i2, false_jump_index, JumpIfFalse(false_jump))
              [] command.k = "Add" -> Append(instructions, Add)
              [] command.k = "Sub" -> Append(instructions, Sub)
              [] command.k = "Mul" -> Append(instructions, Mul)
              [] command.k = "Div" -> Append(instructions, Div)
      IN  compile_routine(compiled, Tail(routine))

\* Faulty variant: no Return is appended.
compile_user_no_return(routine) == compile_routine(<<>>, routine)

\* The User routine built from one entry of program.routines: its code, then Return.
compile_user(routine) == Append(compile_routine(<<>>, routine), Return)

\* Faulty variant: a user routine keeps its name when a native has the same one.
compile_cauchemar_program_user_wins(prog) ==
    [name \in DOMAIN prog \cup NativeNames |->
        IF name \in DOMAIN prog
        THEN [kind |-> "User", instructions |-> compile_user(prog[name])]
        ELSE [kind |-> "Native"]]

\* fn compile_cauchemar_program, the routine table: the user routines are
\* inserted first, the natives after them under their own names.
compile_cauchemar_program(prog) ==
    [name \in DOMAIN prog \cup NativeNames |->
        IF name \in NativeNames THEN [kind |-> "Native"]
        ELSE [kind |-> "User", instructions |-> compile_user(prog[name])]]

----------------------------------------------------------------------------
(* The programs the model runs (the parser's output).                      *)

Prog(cmds) == "PROGRAM" :> cmds

\* The literal command that pushes value v.
Lit(v) ==
    CASE v.t = "Number" -> AstNumber(v.n)
      [] v.t = "Bool" -> AstBool(v.b)
      [] v.t = "String" -> AstString(v.s)

Lits(vs) == [i \in 1..Len(vs) |-> Lit(vs[i])]

N(n) == AstNumber(n)

Id(s) == Identifier(s)

\* Arithmetic on two literals, on one, on none; with and without a value beneath.
ArithNumbers == {0, 1, -1, 2, 7, -7, I32_MAX, I32_MIN}

ArithOperands == {Number(n) : n \in ArithNumbers} \cup {Bool(TRUE), String("a")}

ArithCommands == {AstAdd, AstSub, AstMul, AstDiv}

ArithPrograms ==
    {Prog(pre \o <<Lit(a), Lit(b), c>>) :
        pre \in {<<>>, <<AstString("z")>>}, a \in ArithOperands, b \in ArithOperands,
        c \in ArithCommands}
    \cup {Prog(<<Lit(a), c>>) : a \in ArithOperands, c \in ArithCommands}
    \cup {Prog(<<c>>) : c \in ArithCommands}
    \cup {Prog(<<N(1), AstBool(TRUE), Id("ADD")>>)}

\* IF .. ELSE .. THEN: a condition (or none, or a Number), two branches, a tail.
Branches ==
    {<<>>,
     <<N(1)>>,
     <<N(2), Id("PRINT")>>,
     <<AstBool(TRUE), If(<<N(3), Id("PRINT")>>, <<>>)>>,
     <<AstBool(FALSE), If(<<AstString("x")>>, <<N(4), Id("PRINT")>>), Id("PRINT")>>,
     <<Id("R")>>,
     <<While(<<N(5), Id("PRINT"), AstBool(FALSE)>>)>>}

IfPrograms ==
    {("PROGRAM" :> (cond \o <<If(then, otherwise)>> \o tail))
        @@ ("R" :> <<AstString("r"), Id("PRINT")>>) :
        cond \in {<<AstBool(TRUE)>>, <<AstBool(FALSE)>>, <<N(1)>>, <<>>},
        then \in Branches, otherwise \in Branches,
        tail \in {<<>>, <<Id("PRINT")>>, <<N(9), Id("PRINT")>>}}

\* DO .. WHILE: counting loops, loops whose conditions were pushed beforehand,
\* nested loops, a loop that never ends, a loop whose condition is no Bool.
CountDown == <<N(1), AstSub, Id("DUP"), N(0), Id("GREATER-THAN")>>

RECURSIVE Bools(_)
\* FALSE beneath k TRUEs: a DO WHILE with an empty body pops TRUE k times, then FALSE.
Bools(k) == IF k = 0 THEN <<AstBool(FALSE)>> ELSE Append(Bools(k - 1), AstBool(TRUE))

WhilePrograms ==
    {Prog(<<N(n), While(CountDown), Id("PRINT")>>) : n \in 0..MaxN}
    \cup {Prog(<<N(n), While(<<Id("DUP"), Id("PRINT")>> \o CountDown), Id("DROP")>>) :
            n \in 0..MaxN}
    \cup {Prog(Bools(k) \o <<While(<<>>)>> \o tail) :
            k \in 0..MaxN, tail \in {<<>>, <<N(9), Id("PRINT")>>}}
    \cup {Prog(<<N(n), While(<<While(<<N(7), Id("PRINT"), AstBool(FALSE)>>)>> \o CountDown)>>) :
            n \in 0..MaxN}
    \cup {Prog(<<N(n), While(<<While(CountDown), AstBool(FALSE)>>), Id("PRINT")>>) :
            n \in 0..MaxN}
    \cup {Prog(<<N(n), While(CountDown \o <<If(<<AstBool(TRUE)>>, <<AstBool(FALSE)>>)>>)>>) :
            n \in 0..MaxN}
    \cup {Prog(<<While(body)>> \o tail) :
            body \in {<<AstBool(FALSE)>>, <<AstBool(TRUE)>>, <<N(1)>>, <<>>,
                      <<N(1), Id("PRINT"), AstBool(FALSE)>>, <<N(1), AstBool(TRUE)>>},
            tail \in {<<>>, <<N(9), Id("PRINT")>>}}

\* Calls: a routine that counts down by calling itself, nested and mutually
\* recursive routines, unbounded recursion, a missing routine, a user
\* routine under a native's name, a program without PROGRAM.
Rec == <<Id("DUP"), N(0), Id("GREATER-THAN"), If(<<N(1), AstSub, Id("R")>>, <<>>)>>

RecProgram(n) == ("PROGRAM" :> <<N(n), Id("R"), Id("PRINT")>>) @@ ("R" :> Rec)

\* The same, printing the counter on the way down and on the way up.
RecPrintProgram(n) ==
    ("PROGRAM" :> <<N(n), Id("R"), Id("PRINT")>>)
        @@ ("R" :> <<Id("DUP"), Id("PRINT")>> \o Rec \o <<Id("DUP"), Id("PRINT")>>)

RecPrograms(n) == {RecProgram(n), RecPrintProgram(n)}

\* The counting recursions, a recursion without end, a call of a routine
\* that does not exist.
RecursionPrograms ==
    UNION {RecPrograms(n) : n \in 0..MaxN}
        \cup {("PROGRAM" :> <<Id("R")>>) @@ ("R" :> <<N(1), Id("R")>>), Prog(<<Id("R")>>)}

CallPrograms ==
    RecursionPrograms
    \cup {("PROGRAM" :> <<N(n), Id("A"), Id("PRINT")>>)
            @@ ("A" :> <<Id("DUP"), N(0), Id("GREATER-THAN"), If(<<N(1), AstSub, Id("B")>>, <<>>)>>)
            @@ ("B" :> <<Id("DUP"), Id("PRINT"), Id("A")>>) :
            n \in 0..MaxN}
    \cup {("PROGRAM" :> <<Id("A"), N(1), Id("PRINT")>>)
            @@ ("A" :> <<N(2), Id("PRINT"), Id("B"), N(3), Id("PRINT"), Id("B")>>)
            @@ ("B" :> b) :
            b \in {<<>>, <<N(4), Id("PRINT")>>, <<Id("C")>>, <<Id("DROP")>>}}
    \cup {Prog(<<N(1), Id("PRINT"), Id("PROGRAM")>>),
          Prog(<<N(1), N(2)>>),
          Prog(<<N(1), Id("PRINT"), N(2), AstString("a"), AstBool(TRUE)>>),
          Prog(<<AstBool(FALSE), If(<<Id("R")>>, <<>>)>>),
          ("PROGRAM" :> <<N(1), Id("PRINT"), N(2), Id("DUP")>>)
            @@ ("PRINT" :> <<Id("DROP"), N(7)>>) @@ ("DUP" :> <<>>),
          ("MAIN" :> <<N(1), Id("PRINT")>>)}

\* Each native on every stack of at most three values.
NativeValues == {Number(1), Number(2), Bool(TRUE), Bool(FALSE), String("a")}

NativeStacks ==
    {<<>>} \cup {<<a>> : a \in NativeValues}
    \cup {<<a, b>> : a \in NativeValues, b \in NativeValues}
    \cup {<<a, b, c>> : a \in NativeValues, b \in NativeValues, c \in NativeValues}

NativePrograms == {Prog(Lits(vs) \o <<Id(name)>>) : vs \in NativeStacks, name \in NativeNames}

\* The stack-shuffling natives on every such stack laid over another value.
Shufflers == {"DUP", "SWAP", "ROT", "OVER"}

ShufflePrograms ==
    {Prog(<<AstString("z")>> \o Lits(vs) \o <<Id(name)>>) :
        vs \in NativeStacks, name \in Shufflers}

\* Every command list of at most MaxLen commands over GenCommands.
GenCommands ==
    {N(1), AstBool(TRUE), AstBool(FALSE), Id("PRINT"), Id("DUP"), Id("NOT"), AstSub, Id("R"),
     If(<<N(2)>>, <<>>), If(<<>>, <<N(3), Id("PRINT")>>), While(<<>>), While(<<Id("NOT")>>)}

RECURSIVE SeqsUpTo(_, _)
SeqsUpTo(S, n) ==
    IF n = 0 THEN {<<>>}
    ELSE LET shorter == SeqsUpTo(S, n - 1)
         IN  shorter \cup {Append(q, x) : q \in {w \in shorter : Len(w) = n - 1}, x \in S}

GenPrograms ==
    {("PROGRAM" :> cmds) @@ ("R" :> <<AstBool(FALSE), If(<<N(4)>>, <<N(5), Id("PRINT")>>)>>) :
        cmds \in SeqsUpTo(GenCommands, MaxLen)}

Programs ==
    ArithPrograms \cup IfPrograms \cup WhilePrograms \cup CallPrograms \cup NativePrograms
        \cup ShufflePrograms \cup GenPrograms

----------------------------------------------------------------------------
(* The machine.                                                            *)

\* The state main is in once the source is parsed, for a program of `progs`.
InitWith(progs) ==
    /\ program \in progs
    /\ overflow_checks \in BOOLEAN
    /\ routines = <<>>
    /\ ip = <<>>
    /\ stack = <<>>
    /\ out = <<>>
    /\ status = "loaded"
    /\ trace = <<>>
    /\ ast_frames = <<>>
    /\ ast_stack = <<>>
    /\ ast_out = <<>>
    /\ ast_status = "idle"
    /\ ast_steps = 0

Init == InitWith(Programs)

\* The recursive programs alone.
RecInit == InitWith(RecursionPrograms)

\* The table rs holds a User routine with a Call of a name that rs does not hold.
UnresolvedCall(rs) ==
    \E name \in DOMAIN rs :
      /\ rs[name].kind = "User"
      /\ \E i \in 1..Len(rs[name].instructions) :
            /\ rs[name].instructions[i].op = "Call"
            /\ rs[name].instructions[i].r \notin DOMAIN rs

\* Faulty variant: the names called are looked up when the program is compiled.
Main_resolving_names ==
    /\ status = "loaded"
    /\ IF "PROGRAM" \notin DOMAIN program
       THEN /\ status' = "Missing PROGRAM routine"
            /\ UNCHANGED <<routines, ip, ast_frames, ast_status>>
       ELSE IF UnresolvedCall(compile_cauchemar_program(program))
       THEN /\ status' = "Unknown routine"
            /\ UNCHANGED <<routines, ip, ast_frames, ast_status>>
       ELSE /\ status' = "running"
            /\ routines' = compile_cauchemar_program(program)
            /\ ip' = << <<"PROGRAM", 0>> >>
            /\ ast_frames' = <<program["PROGRAM"]>>
            /\ ast_status' = "running"
    /\ UNCHANGED <<program, overflow_checks, stack, out, trace, ast_stack, ast_out, ast_steps>>

\* Faulty variant: the program is compiled before PROGRAM is looked for.
Main_compiling_first ==
    /\ status = "loaded"
    /\ routines' = compile_cauchemar_program(program)
    /\ IF "PROGRAM" \notin DOMAIN program
       THEN /\ status' = "Missing PROGRAM routine"
            /\ UNCHANGED <<ip, ast_frames, ast_status>>
       ELSE /\ status' = "running"
            /\ ip' = << <<"PROGRAM", 0>> >>
            /\ ast_frames' = <<program["PROGRAM"]>>
            /\ ast_status' = "running"
    /\ UNCHANGED <<program, overflow_checks, stack, out, trace, ast_stack, ast_out, ast_steps>>

\* fn main, after parsing: the PROGRAM check, then compile_cauchemar_program.
Main ==
    /\ status = "loaded"
    /\ IF "PROGRAM" \notin DOMAIN program
       THEN /\ status' = "Missing PROGRAM routine"
            /\ UNCHANGED <<routines, ip, ast_frames, ast_status>>
       ELSE /\ status' = "running"
            /\ routines' = compile_cauchemar_program(program)
            /\ ip' = << <<"PROGRAM", 0>> >>
            /\ ast_frames' = <<program["PROGRAM"]>>
            /\ ast_status' = "running"
    /\ UNCHANGED <<program, overflow_checks, stack, out, trace, ast_stack, ast_out, ast_steps>>

\* The frame run_vm pops at the top of its loop.
routine_name == Last(ip)[1]

cur_ip == Last(ip)[2]

\* Faulty variant: the frame is pushed back without the advance.
advanced_not == Append(Front(ip), <<routine_name, cur_ip>>)

\* vm.ip after `vm.ip.push((routine_name, ip + 1))`.
advanced == Append(Front(ip), <<routine_name, cur_ip + 1>>)

\* vm.ip after a pop of the pre-advanced frame and a push of (routine_name, pos).
jumped(pos) == Append(Front(ip), <<routine_name, pos>>)

Running == status = "running" /\ ip # <<>> /\ Len(trace) < MaxSteps

Known == routine_name \in DOMAIN routines

\* The loop is at a User routine whose next instruction has opcode op.
Fetch(op) ==
    /\ Running
    /\ Known
    /\ routines[routine_name].kind = "User"
    /\ cur_ip < Len(routines[routine_name].instructions)
    /\ routines[routine_name].instructions[cur_ip + 1].op = op

instruction == routines[routine_name].instructions[cur_ip + 1]

\* History of the iteration being taken.
Log(instr) ==
    trace' = Append(trace, [name |-> routine_name, ip |-> cur_ip, depth |-> Len(ip),
                            frames |-> ip, stack |-> stack, out |-> out, instr |-> instr])

\* Faulty variant: the values are written bottom first.
dump_bottom_first(st) == [i \in 1..Len(st) |-> to_string(st[i])]

\* for value in vm.stack.iter().rev() { println!("{}", value) }
dump(st) == [i \in 1..Len(st) |-> to_string(st[Len(st) + 1 - i])]

\* None => panic!("Unknown routine: {}", routine_name)
UnknownRoutine ==
    /\ Running
    /\ ~Known
    /\ ip' = Front(ip)
    /\ status' = "Unknown routine"
    /\ Log([op |-> "Unknown"])
    /\ UNCHANGED <<program, overflow_checks, routines, stack, out, ast_vars>>

\* Faulty variant: the frame of a native that returned stays on the frame stack.
NativeCall_keeping_frame ==
    /\ Running
    /\ Known
    /\ routines[routine_name].kind = "Native"
    /\ LET r == native(routine_name, stack)
       IN  /\ stack' = r.stack
           /\ out' = out \o r.lines
           /\ status' = IF r.panic # "" THEN r.panic ELSE status
           /\ ip' = advanced
    /\ Log([op |-> "Native"])
    /\ UNCHANGED <<program, overflow_checks, routines, ast_vars>>

\* CauchemarVMRoutine::Native(native) => { native(vm); vm.ip.pop(); }
NativeCall ==
    /\ Running
    /\ Known
    /\ routines[routine_name].kind = "Native"
    /\ LET r == native(routine_name, stack)
       IN  /\ stack' = r.stack
           /\ out' = out \o r.lines
           /\ IF r.panic # ""
              THEN status' = r.panic /\ ip' = advanced
              ELSE status' = status /\ ip' = Front(ip)
    /\ Log([op |-> "Native"])
    /\ UNCHANGED <<program, overflow_checks, routines, ast_vars>>

ExecPush ==
    /\ Fetch("Push")
    /\ stack' = Append(stack, instruction.v)
    /\ ip' = advanced
    /\ Log(instruction)
    /\ UNCHANGED <<program, overflow_checks, routines, out, status, ast_vars>>

\* Add | Sub | Mul | Div => binop(vm, closure)
ExecBinop ==
    /\ \E op \in {"Add", "Sub", "Mul", "Div"} : Fetch(op)
    /\ LET r == binop(stack, instruction.op, overflow_checks)
       IN  /\ stack' = r.stack
           /\ status' = IF r.panic # "" THEN r.panic ELSE status
    /\ ip' = advanced
    /\ Log(instruction)
    /\ UNCHANGED <<program, overflow_checks, routines, out, ast_vars>>

ExecJump ==
    /\ Fetch("Jump")
    /\ ip' = jumped(instruction.pos)
    /\ Log(instruction)
    /\ UNCHANGED <<program, overflow_checks, routines, stack, out, status, ast_vars>>

ExecJumpIfFalse ==
    /\ Fetch("JumpIfFalse")
    /\ IF stack = <<>>
       THEN /\ status' = "Stack underflow"
            /\ ip' = advanced
            /\ stack' = stack
       ELSE /\ stack' = Front(stack)
            /\ IF Last(stack).t # "Bool"
               THEN status' = "Invalid type" /\ ip' = advanced
               ELSE /\ status' = status
                    /\ ip' = IF Last(stack).b THEN advanced ELSE jumped(instruction.pos)
    /\ Log(instruction)
    /\ UNCHANGED <<program, overflow_checks, routines, out, ast_vars>>

\* Faulty variant: the callee's frame takes the place of the caller's.
ExecCall_replacing_caller ==
    /\ Fetch("Call")
    /\ ip' = Append(Front(ip), <<instruction.r, 0>>)
    /\ Log(instruction)
    /\ UNCHANGED <<program, overflow_checks, routines, stack, out, status, ast_vars>>

ExecCall ==
    /\ Fetch("Call")
    /\ ip' = Append(advanced, <<instruction.r, 0>>)
    /\ Log(instruction)
    /\ UNCHANGED <<program, overflow_checks, routines, stack, out, status, ast_vars>>

ExecNop ==
    /\ Fetch("Nop")
    /\ ip' = advanced
    /\ Log(instruction)
    /\ UNCHANGED <<program, overflow_checks, routines, stack, out, status, ast_vars>>

\* Return => { vm.ip.pop(); if vm.ip.is_empty() { break; } } and, after the
\* loop, the dump of the values left on the stack.
ExecReturn ==
    /\ Fetch("Return")
    /\ ip' = Front(advanced)
    /\ IF Front(advanced) = <<>>
       THEN status' = "halted" /\ out' = out \o dump(stack)
       ELSE status' = status /\ out' = out
    /\ Log(instruction)
    /\ UNCHANGED <<program, overflow_checks, routines, stack, ast_vars>>

\* What the panic that ended the run says: the text of its panic!(..), which
\* is a constant but for "Unknown routine: {}", which names the routine looked up.
panic_message ==
    IF status = "Unknown routine"
    THEN [text |-> status, routine |-> trace[Len(trace)].name]
    ELSE [text |-> status]

----------------------------------------------------------------------------
(* The reference: a direct interpretation of the command lists, run after  *)
(* the machine has stopped.  An activation is the list of the commands it  *)
(* still has to run; LoopTest(body) stands after the body of a DO..WHILE.  *)

LoopTest(body) == [k |-> "LoopTest", body |-> body]

AstMaxSteps == 3 * MaxSteps

VmStopped == status \notin {"loaded", "running", "Missing PROGRAM routine"}

\* The effect of one command on <<frames, stack, lines printed, panic>>,
\* `frames` being the activations with the command already taken off the top one.
interpret(command, frames, st, checks) ==
    LET rest == Last(frames)
        below == Front(frames)
        Res(f, s, l, p) == [frames |-> f, stack |-> s, lines |-> l, panic |-> p]
        Branch(taken, skipped) ==
            IF st = <<>> THEN Res(frames, st, <<>>, "Stack underflow")
            ELSE IF Last(st).t # "Bool" THEN Res(frames, Front(st), <<>>, "Invalid type")
            ELSE IF Last(st).b THEN Res(Append(below, taken \o rest), Front(st), <<>>, "")
            ELSE Res(Append(below, skipped \o rest), Front(st), <<>>, "")
    IN  CASE command.k = "Number" -> Res(frames, Append(st, Number(command.n)), <<>>, "")
          [] command.k = "Bool" -> Res(frames, Append(st, Bool(command.b)), <<>>, "")
          [] command.k = "String" -> Res(frames, Append(st, String(command.s)), <<>>, "")
          [] command.k = "Identifier" ->
               IF command.s \in NativeNames
               THEN LET r == native(command.s, st)
                    IN  Res(frames, r.stack, r.lines, r.panic)
               ELSE IF command.s \in DOMAIN program
               THEN Res(Append(frames, program[command.s]), st, <<>>, "")
               ELSE Res(frames, st, <<>>, "Unknown routine")
          [] command.k = "If" -> Branch(command.then, command.otherwise)
          [] command.k = "While" ->
               Res(Append(below, command.body \o <<LoopTest(command.body)>> \o rest), st, <<>>, "")
          [] command.k = "LoopTest" ->
               Branch(command.body \o <<LoopTest(command.body)>>, <<>>)
          [] command.k \in {"Add", "Sub", "Mul", "Div"} ->
               LET r == binop(st, command.k, checks)
               IN  Res(frames, r.stack, <<>>, r.panic)

Interpret ==
    /\ VmStopped
    /\ ast_status = "running"
    /\ ast_steps < AstMaxSteps
    /\ ast_steps' = ast_steps + 1
    /\ IF Last(ast_frames) = <<>>
       THEN /\ ast_frames' = Front(ast_frames)
            /\ ast_stack' = ast_stack
            /\ IF Front(ast_frames) = <<>>
               THEN ast_status' = "halted" /\ ast_out' = ast_out \o dump(ast_stack)
               ELSE ast_status' = ast_status /\ ast_out' = ast_out
       ELSE LET work == Last(ast_frames)
                r == interpret(Head(work), Append(Front(ast_frames), Tail(work)),
                               ast_stack, overflow_checks)
            IN  /\ ast_frames' = r.frames
                /\ ast_stack' = r.stack
                /\ ast_out' = ast_out \o r.lines
                /\ ast_status' = IF r.panic # "" THEN r.panic ELSE ast_status
    /\ UNCHANGED vm_vars

Next ==
    \/ Main
    \/ UnknownRoutine
    \/ NativeCall
    \/ ExecPush
    \/ ExecBinop
    \/ ExecJump
    \/ ExecJumpIfFalse
    \/ ExecCall
    \/ ExecNop
    \/ ExecReturn
    \/ Interpret

Spec == Init /\ [][Next]_vars

\* The recursive programs; run_vm is a sequential loop, so an iteration that
\* can be taken is taken.
RecSpec == RecInit /\ [][Next]_vars /\ WF_vars(Next)

----------------------------------------------------------------------------
(* Properties.                                                             *)

AstStopped == ast_status \notin {"idle", "running"}

\* C1: for every command list, the bytecode compile_routine emits, run by
\* run_vm, and the direct interpretation of the commands end the same way:
\* the same output lines, the same value stack, the same halt or fault; and
\* the interpretation stops whenever the machine does.
C1_CompiledRunEqualsInterpretation ==
    /\ AstStopped => ast_status = status /\ ast_out = out /\ ast_stack = stack
    /\ VmStopped /\ ast_status = "running" => ast_steps < AstMaxSteps


\* The machine and the interpretation both halted after a run that looped
\* back, printed, and left a value on the stack.
C1_Witness ==
    /\ status = "halted" /\ ast_status = "halted"
    /\ Len(out) >= 3 /\ stack # <<>>
    /\ \E k \in 1..Len(trace) :
          trace[k].instr.op = "Jump" /\ trace[k].instr.pos < trace[k].ip

----------------------------------------------------------------------------
(* Reading the history.                                                    *)

\* The state the k-th iteration left.
StackAfter(k) == IF k < Len(trace) THEN trace[k + 1].stack ELSE stack

FramesAfter(k) == IF k < Len(trace) THEN trace[k + 1].frames ELSE ip

OutAfter(k) == IF k < Len(trace) THEN trace[k + 1].out ELSE out

StatusAfter(k) == IF k < Len(trace) THEN "running" ELSE status

RECURSIVE OwnFrom(_, _, _)
OwnFrom(j, d, acc) ==
    IF j > Len(trace) \/ trace[j].depth < d THEN acc
    ELSE OwnFrom(j + 1, d, IF trace[j].depth = d THEN Append(acc, j) ELSE acc)

\* The iterations after the k-th that ran instructions of the same activation
\* (at its depth, before any shallower frame is on top), in order.
After(k) == OwnFrom(k + 1, trace[k].depth, <<>>)

RECURSIVE OwnBack(_, _, _)
OwnBack(j, d, acc) ==
    IF j = 0 \/ trace[j].depth < d THEN acc
    ELSE OwnBack(j - 1, d, IF trace[j].depth = d THEN <<j>> \o acc ELSE acc)

\* The iterations of the activation of the k-th up to the k-th, in order.
UpTo(k) == OwnBack(k - 1, trace[k].depth, <<k>>)

RECURSIVE FirstAt(_, _, _)
\* The first position >= i of `own` whose iteration is at instruction index pos, or 0.
FirstAt(own, pos, i) ==
    IF i > Len(own) THEN 0
    ELSE IF trace[own[i]].ip = pos THEN i
    ELSE FirstAt(own, pos, i + 1)

\* The user routines of the table: those no native shadows.
UserNames == DOMAIN program \ NativeNames

CodeLen(cmds) == Len(compile_routine(<<>>, cmds))

Straight(cmds) == \A i \in 1..Len(cmds) : cmds[i].k \notin {"If", "While"}

RECURSIVE IfSites(_, _)
\* The If constructs of a command list whose code starts at index base: the
\* indices of the JumpIfFalse, of the Jump and of the trailing Nop; the then
\* instructions lie between the first two, the otherwise ones between the last two.
IfSites(cmds, base) ==
    IF cmds = <<>> THEN {}
    ELSE LET c == Head(cmds)
             inner ==
               CASE c.k = "If" ->
                      LET lt == CodeLen(c.then)
                          lo == CodeLen(c.otherwise)
                      IN  {[jif |-> base, jump |-> base + 1 + lt, nop |-> base + 2 + lt + lo,
                            then_straight |-> Straight(c.then),
                            otherwise_straight |-> Straight(c.otherwise)]}
                          \cup IfSites(c.then, base + 1)
                          \cup IfSites(c.otherwise, base + 2 + lt)
                 [] c.k = "While" -> IfSites(c.body, base)
                 [] OTHER -> {}
         IN  inner \cup IfSites(Tail(cmds), base + CodeLen(<<c>>))

\* The k-th iteration ran a JumpIfFalse at index jif with a Bool on top.
AtTest(k, jif) ==
    /\ trace[k].instr.op = "JumpIfFalse"
    /\ trace[k].ip = jif
    /\ trace[k].stack # <<>>
    /\ Last(trace[k].stack).t = "Bool"

\* C2: a compiled If reached with a Bool on top pops it.  On TRUE, until the
\* trailing Nop only then instructions and then the construct's Jump run,
\* starting with the first then instruction; on FALSE only otherwise
\* instructions run, starting with the first, and with an empty otherwise
\* nothing runs before the Nop.  A branch without control flow runs each of
\* its instructions once, in order.  After the Nop comes the instruction
\* that follows it.
C2_IfRunsExactlyOneBranch ==
    \A k \in 1..Len(trace) :
      trace[k].name \in UserNames =>
        \A s \in IfSites(program[trace[k].name], 0) :
          AtTest(k, s.jif) =>
            LET cond == Last(trace[k].stack).b
                own == After(k)
                first == IF cond THEN s.jif + 1 ELSE s.jump + 1
                last == IF cond THEN s.jump ELSE s.nop - 1
                straight == IF cond THEN s.then_straight ELSE s.otherwise_straight
                at_nop == FirstAt(own, s.nop, 1)
                branch == 1..(IF at_nop = 0 THEN Len(own) ELSE at_nop - 1)
            IN  /\ StackAfter(k) = Front(trace[k].stack)
                /\ StatusAfter(k) = "running"
                /\ \A i \in branch : trace[own[i]].ip >= first /\ trace[own[i]].ip <= last
                /\ own # <<>> => trace[own[1]].ip = (IF first > last THEN s.nop ELSE first)
                /\ straight => \A i \in branch : trace[own[i]].ip = first + i - 1
                /\ at_nop # 0 =>
                      /\ at_nop < Len(own) => trace[own[at_nop + 1]].ip = s.nop + 1
                      /\ cond => at_nop > 1 /\ trace[own[at_nop - 1]].ip = s.jump
                      /\ straight => at_nop - 1 = last - first + 1

\* A FALSE condition with a non-empty otherwise branch, run to the
\* instruction after the Nop.
C2_Witness ==
    \E k \in 1..Len(trace) :
      /\ trace[k].name \in UserNames
      /\ \E s \in IfSites(program[trace[k].name], 0) :
            /\ AtTest(k, s.jif)
            /\ ~Last(trace[k].stack).b
            /\ s.nop > s.jump + 1
            /\ \E i \in 1..Len(After(k)) : trace[After(k)[i]].ip = s.nop + 1

RECURSIVE WhileSites(_, _)
\* The While constructs of a command list whose code starts at index base:
\* the indices of the first body instruction, of the JumpIfFalse (the Jump
\* follows it) and of the trailing Nop.
WhileSites(cmds, base) ==
    IF cmds = <<>> THEN {}
    ELSE LET c == Head(cmds)
             inner ==
               CASE c.k = "While" ->
                      {[start |-> base, jif |-> base + CodeLen(c.body),
                        nop |-> base + CodeLen(c.body) + 2]}
                          \cup WhileSites(c.body, base)
                 [] c.k = "If" ->
                      WhileSites(c.then, base + 1)
                          \cup WhileSites(c.otherwise, base + 2 + CodeLen(c.then))
                 [] OTHER -> {}
         IN  inner \cup WhileSites(Tail(cmds), base + CodeLen(<<c>>))

\* own[i] starts a run of the body of w: it is at the first body instruction,
\* reached from outside the body (from before the loop, or from the loop's Jump).
IsHead(own, i, w) ==
    /\ trace[own[i]].ip = w.start
    /\ i > 1 => trace[own[i - 1]].ip \notin w.start..w.jif

\* own[i] enters the loop w from the outside.
IsEntry(own, i, w) ==
    /\ trace[own[i]].ip = w.start
    /\ i > 1 => trace[own[i - 1]].ip \notin w.start..(w.jif + 1)

RECURSIVE LastEntry(_, _, _)
\* The last position <= i of `own` that enters the loop w, or 0.
LastEntry(own, i, w) ==
    IF i = 0 THEN 0
    ELSE IF IsEntry(own, i, w) THEN i
    ELSE LastEntry(own, i - 1, w)

\* The positions of `own` from the latest entry into the loop w to the end.
Episode(own, w) ==
    IF LastEntry(own, Len(own), w) = 0 THEN {} ELSE LastEntry(own, Len(own), w)..Len(own)

BodyRuns(own, w) == Cardinality({i \in Episode(own, w) : IsHead(own, i, w)})

TrueTests(own, w) ==
    Cardinality({i \in Episode(own, w) : AtTest(own[i], w.jif) /\ Last(trace[own[i]].stack).b})

\* C3: the JumpIfFalse that ends a compiled While body pops a Bool; on TRUE the
\* loop's Jump runs next and then the first body instruction, on FALSE the
\* trailing Nop runs next; and when the loop is left, its body has run once
\* more than the condition was TRUE (once when it was FALSE the first time).
C3_WhileRepeatsBodyWhileTrue ==
    \A k \in 1..Len(trace) :
      trace[k].name \in UserNames =>
        \A w \in WhileSites(program[trace[k].name], 0) :
          AtTest(k, w.jif) =>
            LET cond == Last(trace[k].stack).b
                own == UpTo(k)
                after == After(k)
            IN  /\ StackAfter(k) = Front(trace[k].stack)
                /\ StatusAfter(k) = "running"
                /\ Episode(own, w) # {}
                /\ BodyRuns(own, w) = TrueTests(own, w) + (IF cond THEN 0 ELSE 1)
                /\ cond /\ Len(after) >= 1 => trace[after[1]].ip = w.jif + 1
                /\ cond /\ Len(after) >= 2 => trace[after[2]].ip = w.start
                /\ ~cond /\ Len(after) >= 1 => trace[after[1]].ip = w.nop

\* A loop with a non-empty body was left after its condition was TRUE twice,
\* and the Nop and the instruction after it ran.
C3_Witness ==
    \E k \in 1..Len(trace) :
      /\ trace[k].name \in UserNames
      /\ \E w \in WhileSites(program[trace[k].name], 0) :
            /\ AtTest(k, w.jif)
            /\ ~Last(trace[k].stack).b
            /\ w.start < w.jif
            /\ TrueTests(UpTo(k), w) = 2
            /\ BodyRuns(UpTo(k), w) = 3
            /\ Len(After(k)) >= 2
            /\ trace[After(k)[2]].ip = w.nop + 1


RECURSIVE FirstShallow(_, _)
\* The first iteration >= j that runs at depth d or less, or 0.
FirstShallow(j, d) ==
    IF j > Len(trace) THEN 0
    ELSE IF trace[j].depth <= d THEN j
    ELSE FirstShallow(j + 1, d)

\* The k-th iteration ran a Call of a user routine.
AtUserCall(k) == trace[k].instr.op = "Call" /\ trace[k].instr.r \in UserNames

\* C4: a Call of a user routine puts the frame (callee, 0) on top of the
\* caller's frames, the caller's own frame standing at the instruction after
\* the Call; those frames stay as they are for as long as the callee runs,
\* whatever it calls; the iteration that ends the callee is its Return, and
\* the next one runs the caller's instruction right after the Call.
C4_CallRunsCalleeAndReturnsPastCall ==
    \A k \in 1..Len(trace) :
      AtUserCall(k) =>
        LET d == trace[k].depth
            caller == Append(Front(trace[k].frames), <<trace[k].name, trace[k].ip + 1>>)
            back == FirstShallow(k + 1, d)
            last == IF back = 0 THEN Len(trace) ELSE back - 1
        IN  /\ FramesAfter(k) = Append(caller, <<trace[k].instr.r, 0>>)
            /\ \A j \in k..last : SubSeq(FramesAfter(j), 1, d) = caller
            /\ \A j \in (k + 1)..last :
                  trace[j].instr.op = "Return" /\ trace[j].depth = d + 1
                      => FramesAfter(j) = caller /\ (j = back - 1 \/ j = Len(trace))
            /\ back # 0 =>
                  /\ trace[back - 1].instr.op = "Return"
                  /\ trace[back - 1].depth = d + 1
                  /\ trace[back - 1].name = trace[k].instr.r
                  /\ trace[back].depth = d
                  /\ trace[back].name = trace[k].name
                  /\ trace[back].ip = trace[k].ip + 1

\* A call made two activations deep (a nested or recursive one) has returned
\* and its caller has run on.
C4_Witness ==
    \E k \in 1..Len(trace) :
      /\ AtUserCall(k)
      /\ trace[k].depth >= 3
      /\ FirstShallow(k + 1, trace[k].depth) # 0
      /\ status = "halted"

\* The deepest frame that ran an instruction of a user routine.
RECURSIVE DeepestUserFrame(_)
DeepestUserFrame(k) ==
    IF k = 0 THEN 0
    ELSE LET below == DeepestUserFrame(k - 1)
         IN  IF trace[k].instr.op \notin {"Native", "Unknown"} /\ trace[k].depth > below
             THEN trace[k].depth ELSE below

\* C5: the routine that counts down by calling itself under IF, started with
\* any counter n in 0..MaxN, halts without a fault; its n + 1 activations
\* stand on the frame stack above PROGRAM at the deepest point, and the frame
\* stack is empty at the end.
C5_CountingRecursionHalts ==
    \A n \in 0..MaxN :
      (status = "loaded" /\ program \in RecPrograms(n))
          ~> (status = "halted" /\ ip = <<>> /\ DeepestUserFrame(Len(trace)) = n + 2)

C5_Witness ==
    /\ program = RecProgram(MaxN)
    /\ status = "halted"
    /\ ip = <<>>
    /\ DeepestUserFrame(Len(trace)) = MaxN + 2

\* C6: the machine is halted exactly when its last iteration ran a Return in
\* the bottom frame; a Return leaves the frame stack empty exactly then, and
\* no other iteration does; at the halt the output is the PRINT output so far
\* followed by the values left on the stack, the top one first, and nothing
\* when the stack is empty.
C6_HaltsOnLastReturnAndDumpsTopFirst ==
    LET n == Len(trace)
        BottomReturn(k) == trace[k].instr.op = "Return" /\ trace[k].depth = 1
    IN  /\ status = "halted" <=> (n > 0 /\ BottomReturn(n))
        /\ \A k \in 1..n : FramesAfter(k) = <<>> <=> BottomReturn(k)
        /\ \A k \in 1..n :
              trace[k].instr.op = "Return" /\ trace[k].depth > 1
                  => StatusAfter(k) = "running"
        /\ status = "halted" =>
              /\ ip = <<>>
              /\ stack = trace[n].stack
              /\ Len(out) = Len(trace[n].out) + Len(stack)
              /\ SubSeq(out, 1, Len(trace[n].out)) = trace[n].out
              /\ \A i \in 1..Len(stack) :
                    out[Len(trace[n].out) + i] = to_string(stack[Len(stack) + 1 - i])

\* A halt after PRINT output, with different values left on the stack.
C6_Witness ==
    /\ status = "halted"
    /\ trace[Len(trace)].out # <<>>
    /\ Len(stack) >= 2
    /\ stack[1] # stack[2]


----------------------------------------------------------------------------
(* Arithmetic.                                                             *)

Arith == {"Add", "Sub", "Mul", "Div"}

\* The k-th iteration ran Add, Sub, Mul or Div with two values on the stack.
AtArith(k) == trace[k].instr.op \in Arith /\ Len(trace[k].stack) >= 2

\* Its operands: the top value is the right one, the value beneath the left one.
Right(k) == trace[k].stack[Len(trace[k].stack)]

Left(k) == trace[k].stack[Len(trace[k].stack) - 1]

Beneath(k) == SubSeq(trace[k].stack, 1, Len(trace[k].stack) - 2)

BothNumbers(k) == Left(k).t = "Number" /\ Right(k).t = "Number"

\* a OP b is a 32-bit signed integer.
Representable(op, a, b) ==
    CASE op = "Add" -> ~add_overflows(a, b)
      [] op = "Sub" -> ~sub_overflows(a, b)
      [] op = "Mul" -> ~mul_overflows(a, b)
      [] op = "Div" -> b # 0 /\ ~(a = I32_MIN /\ b = -1)

\* q is a / b truncated toward zero: a = q * b + r with r nearer to zero than
\* b and of the sign of a.
IsTruncatedQuotient(q, a, b) ==
    /\ ~mul_overflows(q, b)
    /\ ~sub_overflows(a, q * b)
    /\ LET r == a - q * b
       IN  /\ r = 0 \/ (a > 0 /\ r > 0) \/ (a < 0 /\ r < 0)
           /\ IF b > 0 THEN -b < r /\ r < b ELSE b < r /\ b < -r

\* v is a OP b, for a representable a OP b.
IsResult(op, a, b, v) ==
    CASE op = "Add" -> v = a + b
      [] op = "Sub" -> v = a - b
      [] op = "Mul" -> v = a * b
      [] op = "Div" -> IsTruncatedQuotient(v, a, b)

\* The k-th iteration left the values beneath the operands and, on top, left OP right.
PushedResult(k) ==
    /\ StatusAfter(k) = "running"
    /\ Len(StackAfter(k)) = Len(trace[k].stack) - 1
    /\ Front(StackAfter(k)) = Beneath(k)
    /\ Last(StackAfter(k)).t = "Number"
    /\ IsResult(trace[k].instr.op, Left(k).n, Right(k).n, Last(StackAfter(k)).n)

\* C7 as stated: Add, Sub, Mul and Div on two Numbers always remove them and
\* push left OP right.
C7_Stated ==
    \A k \in 1..Len(trace) :
      AtArith(k) /\ BothNumbers(k) =>
        /\ Representable(trace[k].instr.op, Left(k).n, Right(k).n)
        /\ PushedResult(k)

\* C7, amended: Add, Sub, Mul and Div on two Numbers remove both and leave the
\* values beneath unchanged; whenever left OP right is a 32-bit signed integer
\* (no zero divisor, no overflow) it is pushed and the run goes on, the top
\* value being the right operand and the one beneath it the left.
C7_ArithmeticTakesTopAsRightOperand ==
    \A k \in 1..Len(trace) :
      AtArith(k) /\ BothNumbers(k) =>
        /\ SubSeq(StackAfter(k), 1, Len(Beneath(k))) = Beneath(k)
        /\ Len(StackAfter(k)) <= Len(Beneath(k)) + 1
        /\ Representable(trace[k].instr.op, Left(k).n, Right(k).n) => PushedResult(k)

\* 7 then 2 were pushed over another value and Sub left 5 over that value.
C7_Witness ==
    \E k \in 1..Len(trace) :
      /\ trace[k].instr.op = "Sub"
      /\ trace[k].stack = <<String("z"), Number(7), Number(2)>>
      /\ StackAfter(k) = <<String("z"), Number(5)>>

AtDivNonZero(k) ==
    /\ trace[k].instr.op = "Div"
    /\ Len(trace[k].stack) >= 2
    /\ BothNumbers(k)
    /\ Left(k).n # 0 /\ Right(k).n # 0

\* C8 as stated: Div on non-zero a (beneath) and b (top) raises no fault and
\* leaves a / b truncated toward zero on top.
C8_Stated ==
    \A k \in 1..Len(trace) :
      AtDivNonZero(k) =>
        /\ StatusAfter(k) = "running"
        /\ Last(StackAfter(k)).t = "Number"
        /\ IsTruncatedQuotient(Last(StackAfter(k)).n, Left(k).n, Right(k).n)

\* C8, amended: Div on non-zero a (beneath) and b (top), other than
\* a = -2^31 with b = -1, raises no fault and leaves a / b truncated toward
\* zero on top; -2^31 / -1 ends the run with an overflow panic and pushes nothing.
C8_DivTruncatesTowardZero ==
    \A k \in 1..Len(trace) :
      AtDivNonZero(k) =>
        IF Left(k).n = I32_MIN /\ Right(k).n = -1
        THEN /\ StatusAfter(k) = "attempt to divide with overflow"
             /\ StackAfter(k) = Beneath(k)
        ELSE /\ StatusAfter(k) = "running"
             /\ Last(StackAfter(k)).t = "Number"
             /\ IsTruncatedQuotient(Last(StackAfter(k)).n, Left(k).n, Right(k).n)

\* -7 / 2 left -3.
C8_Witness ==
    \E k \in 1..Len(trace) :
      /\ AtDivNonZero(k)
      /\ Left(k).n = -7 /\ Right(k).n = 2
      /\ Last(StackAfter(k)) = Number(-3)

\* The k-th iteration ended the run with the panic msg and pushed nothing:
\* what is left of the stack is what was beneath the values popped.
EndedWith(k, msg) ==
    /\ StatusAfter(k) = msg
    /\ Len(StackAfter(k)) < Len(trace[k].stack)
    /\ StackAfter(k) = SubSeq(trace[k].stack, 1, Len(StackAfter(k)))

\* Add, Sub, Mul or Div on two values one of which is no Number ends the run
\* with "Invalid type" and pushes nothing.
NonNumberIsInvalidType ==
    \A k \in 1..Len(trace) :
      AtArith(k) /\ ~BothNumbers(k) => EndedWith(k, "Invalid type")

\* C9 as stated: arithmetic on a non-Number ends in TypeMismatch, and so does
\* the program `1 TRUE ADD`.
C9_Stated ==
    /\ NonNumberIsInvalidType
    /\ program = Prog(<<N(1), AstBool(TRUE), Id("ADD")>>) /\ VmStopped
          => status = "Invalid type"

\* C9, amended: arithmetic on a non-Number ends in TypeMismatch, and so does
\* the program `1 TRUE +` (ADD is no arithmetic command: it compiles to a Call,
\* and `1 TRUE ADD` ends with "Unknown routine").
C9_ArithmeticOnNonNumberIsTypeMismatch ==
    /\ NonNumberIsInvalidType
    /\ program = Prog(<<N(1), AstBool(TRUE), AstAdd>>) /\ VmStopped
          => status = "Invalid type"
    /\ program = Prog(<<N(1), AstBool(TRUE), Id("ADD")>>) /\ VmStopped
          => status = "Unknown routine"

\* Sub found a Number on top and a Bool beneath it.
C9_Witness ==
    \E k \in 1..Len(trace) :
      /\ trace[k].instr.op = "Sub"
      /\ trace[k].stack = <<Bool(TRUE), Number(1)>>
      /\ status = "Invalid type"
      /\ stack = <<>>

----------------------------------------------------------------------------
(* Natives.                                                                *)

\* The values a native pops.
Pops(name) ==
    CASE name \in {"PRINT", "DROP", "DUP", "NOT", "ASSERT"} -> 1
      [] name \in {"SWAP", "OVER", "EQUALS", "OR", "AND"} \cup Comparisons -> 2
      [] name = "ROT" -> 3

\* C10 as stated: a native called with fewer values on the stack than it pops
\* ends the run with "Stack underflow".
C10_Stated ==
    \A k \in 1..Len(trace) :
      trace[k].instr.op = "Native" /\ Len(trace[k].stack) < Pops(trace[k].name)
          => StatusAfter(k) = "Stack underflow"

----------------------------------------------------------------------------
(* Division by zero.                                                       *)

\* C11: Div with Number(0) on top and a Number beneath it ends the run with
\* the panic "attempt to divide by zero"; both operands are gone, nothing is
\* pushed and the values beneath are unchanged.
C11_DivByZeroFaults ==
    \A k \in 1..Len(trace) :
      /\ trace[k].instr.op = "Div"
      /\ Len(trace[k].stack) >= 2
      /\ BothNumbers(k)
      /\ Right(k).n = 0
      => /\ k = Len(trace)
         /\ status = "attempt to divide by zero"
         /\ stack = Beneath(k)

\* `"z" 7 0 /` ended with the division panic and left only "z".
C11_Witness ==
    /\ status = "attempt to divide by zero"
    /\ trace # <<>>
    /\ trace[Len(trace)].instr.op = "Div"
    /\ trace[Len(trace)].stack = <<String("z"), Number(7), Number(0)>>
    /\ stack = <<String("z")>>

----------------------------------------------------------------------------
(* Names are looked up when they are called.                               *)

\* The k-th iteration ran a Call of a name the routine table does not hold.
AtUnknownCall(k) ==
    trace[k].instr.op = "Call" /\ trace[k].instr.r \notin DOMAIN routines

\* The k-th iteration found no routine under the name of the frame it popped.
AtLookupFailure(k) == trace[k].instr.op = "Unknown"

\* C12: a program with PROGRAM compiles whatever names it calls, and the run
\* starts.  "Unknown routine" is raised by the iteration that follows a Call
\* of a name absent from the table, for that name, and by no other; every
\* iteration before it ran without a fault.  A run that executes no such
\* Call does not end with "Unknown routine".
C12_UnknownRoutineOnlyWhenCalled ==
    /\ status # "loaded" /\ "PROGRAM" \in DOMAIN program
          => /\ routines = compile_cauchemar_program(program)
             /\ trace = <<>> => status = "running"
    /\ \A k \in 1..Len(trace) :
          /\ AtLookupFailure(k) <=> k > 1 /\ AtUnknownCall(k - 1)
          /\ AtLookupFailure(k) =>
                /\ trace[k].name = trace[k - 1].instr.r
                /\ k = Len(trace)
                /\ status = "Unknown routine"
                /\ stack = trace[k - 1].stack /\ out = trace[k - 1].out
          /\ AtUnknownCall(k) /\ k = Len(trace) => status = "running"
    /\ status = "Unknown routine" => trace # <<>> /\ AtLookupFailure(Len(trace))
    /\ (\A k \in 1..Len(trace) : ~AtUnknownCall(k)) => status # "Unknown routine"

\* A routine printed, then called a name that does not exist: the run ended
\* with "Unknown routine" after the output was written.
C12_Witness ==
    /\ status = "Unknown routine"
    /\ out # <<>>
    /\ UnresolvedCall(routines)
    /\ Len(trace) >= 4

\* The code holds a Call of a name that does not exist, in a branch that was
\* not taken, and the run halted.
C12_UntakenWitness ==
    /\ status = "halted"
    /\ UnresolvedCall(routines)
    /\ \E k \in 1..Len(trace) : trace[k].instr.op = "JumpIfFalse"

----------------------------------------------------------------------------
(* The entry routine.                                                      *)

\* C13: a program without a routine named PROGRAM ends with "Missing PROGRAM
\* routine" as soon as main has checked it: the routine table is never built,
\* there is no frame, no iteration of run_vm, no value and no output.
C13_MissingProgramRejectedBeforeCompile ==
    "PROGRAM" \notin DOMAIN program /\ status # "loaded"
        => /\ status = "Missing PROGRAM routine"
           /\ routines = <<>>
           /\ ip = <<>>
           /\ trace = <<>>
           /\ stack = <<>>
           /\ out = <<>>

\* A program whose only routine, MAIN, prints was rejected.
C13_Witness ==
    /\ DOMAIN program = {"MAIN"}
    /\ \E i \in 1..Len(program["MAIN"]) : program["MAIN"][i] = Id("PRINT")
    /\ status = "Missing PROGRAM routine"

----------------------------------------------------------------------------
(* The stack-shuffling natives.                                            *)

\* The k-th iteration ran the native `name` on a stack of at least n values.
AtNative(k, name, n) ==
    /\ trace[k].instr.op = "Native"
    /\ trace[k].name = name
    /\ Len(trace[k].stack) >= n

\* The stack the k-th iteration left has len values and agrees with the one
\* it found on the lowest `kept`.
Keeps(k, kept, len) ==
    /\ Len(StackAfter(k)) = len
    /\ \A i \in 1..kept : StackAfter(k)[i] = trace[k].stack[i]

\* C14: on a stack that holds the values it pops, each of DUP, SWAP, OVER and
\* ROT returns, prints nothing and leaves every value beneath those it pops
\* where it was.  DUP leaves the top value twice; SWAP leaves the former top
\* beneath the former second; OVER leaves b a b for b a (a on top); ROT
\* leaves b a c (c on top) for c b a (a on top).
C14_ShufflersRewriteOnlyTheTop ==
    \A k \in 1..Len(trace) :
      LET st == trace[k].stack
          L == Len(st)
          new == StackAfter(k)
      IN  /\ \A name \in Shufflers :
                AtNative(k, name, IF name = "DUP" THEN 1 ELSE IF name = "ROT" THEN 3 ELSE 2)
                    => StatusAfter(k) = "running" /\ OutAfter(k) = trace[k].out
          /\ AtNative(k, "DUP", 1) =>
                Keeps(k, L, L + 1) /\ new[L + 1] = st[L]
          /\ AtNative(k, "SWAP", 2) =>
                Keeps(k, L - 2, L) /\ new[L - 1] = st[L] /\ new[L] = st[L - 1]
          /\ AtNative(k, "OVER", 2) =>
                Keeps(k, L, L + 1) /\ new[L + 1] = st[L - 1]
          /\ AtNative(k, "ROT", 3) =>
                /\ Keeps(k, L - 3, L)
                /\ new[L - 2] = st[L - 1] /\ new[L - 1] = st[L] /\ new[L] = st[L - 2]

\* ROT found 1, 2, TRUE (TRUE on top) over "z" and left 2, TRUE, 1 over "z".
C14_Witness ==
    \E k \in 1..Len(trace) :
      /\ AtNative(k, "ROT", 3)
      /\ trace[k].stack = <<String("z"), Number(1), Number(2), Bool(TRUE)>>
      /\ StackAfter(k) = <<String("z"), Number(2), Bool(TRUE), Number(1)>>

\* 1 then 2 were pushed and SWAP left 1 on top of 2.
C14_SwapWitness ==
    \E k \in 1..Len(trace) :
      /\ AtNative(k, "SWAP", 2)
      /\ trace[k].stack = <<Number(1), Number(2)>>
      /\ StackAfter(k) = <<Number(2), Number(1)>>

----------------------------------------------------------------------------
(* The comparisons.                                                        *)

\* left OP right for the comparison called `name`.
Holds(name, left, right) ==
    CASE name = "GREATER-THAN" -> left > right
      [] name = "GREATER-EQUAL" -> left >= right
      [] name = "LESS-THAN" -> left < right
      [] name = "LESS-EQUAL" -> left <= right

\* C15: a comparison on two Numbers removes both, leaves the values beneath
\* unchanged and pushes Bool(left OP right), the top value being the right
\* operand and the one beneath it the left; when one of the two values, or
\* the only value, is no Number the run ends with "Invalid type" and nothing
\* is pushed.
C15_ComparisonsTakeTopAsRightOperand ==
    \A k \in 1..Len(trace) : \A name \in Comparisons :
      /\ AtNative(k, name, 2) /\ BothNumbers(k) =>
            /\ StatusAfter(k) = "running"
            /\ OutAfter(k) = trace[k].out
            /\ StackAfter(k) = Append(Beneath(k), Bool(Holds(name, Left(k).n, Right(k).n)))
      /\ AtNative(k, name, 2) /\ ~BothNumbers(k) => EndedWith(k, "Invalid type")
      /\ AtNative(k, name, 1) /\ Len(trace[k].stack) = 1 /\ trace[k].stack[1].t # "Number"
            => EndedWith(k, "Invalid type")

\* 1 then 2 were pushed over another value and LESS-THAN left TRUE over it.
C15_Witness ==
    \E k \in 1..Len(trace) :
      /\ AtNative(k, "LESS-THAN", 2)
      /\ trace[k].stack = <<String("a"), Number(1), Number(2)>>
      /\ StackAfter(k) = <<String("a"), Bool(TRUE)>>

----------------------------------------------------------------------------
(* Natives and user routines of the same name.                             *)

\* The names of the program that are names of natives.
Shadowed == DOMAIN program \cap NativeNames

\* C16: once the table is built every native's name holds the native, also a
\* name the program defines.  A Call of such a name is followed by the
\* iteration that runs the native on the value stack, and no iteration ever
\* runs an instruction of the body the program gave under that name.
C16_NativeReplacesUserRoutineOfItsName ==
    /\ status \in {"running", "halted"} =>
          \A name \in NativeNames : routines[name].kind = "Native"
    /\ \A k \in 1..Len(trace) :
          /\ trace[k].name \in NativeNames => trace[k].instr.op = "Native"
          /\ trace[k].instr.op = "Call" /\ trace[k].instr.r \in Shadowed /\ k < Len(trace)
                => /\ trace[k + 1].instr.op = "Native"
                   /\ trace[k + 1].name = trace[k].instr.r
                   /\ trace[k + 1].stack = trace[k].stack
                   /\ StackAfter(k + 1) = native(trace[k].instr.r, trace[k].stack).stack
                   /\ OutAfter(k + 1) = trace[k].out \o native(trace[k].instr.r, trace[k].stack).lines

\* The program defines PRINT as `DROP 7` and DUP as nothing; `1 PRINT 2 DUP`
\* printed 1 and halted with 2 twice on the stack.
C16_Witness ==
    /\ Shadowed = {"PRINT", "DUP"}
    /\ program["PRINT"] = <<Id("DROP"), N(7)>>
    /\ status = "halted"
    /\ out = <<"1", "2", "2">>
    /\ stack = <<Number(2), Number(2)>>

----------------------------------------------------------------------------
(* What a fault says.                                                      *)

\* The run was ended by a panic of run_vm, of binop or of a native.
VmFault == VmStopped /\ status # "halted"

\* C17 as stated: the panic that ends a run carries the routine name, the
\* instruction index and the instruction of the frame that was executing.
C17_Stated ==
    VmFault =>
      /\ {"routine", "index", "instruction"} \subseteq DOMAIN panic_message
      /\ panic_message.routine = trace[Len(trace)].name
      /\ panic_message.index = trace[Len(trace)].ip
      /\ panic_message.instruction = trace[Len(trace)].instr

----------------------------------------------------------------------------
(* Instruction indices.                                                    *)

\* The instruction list of the User routine `name`.
Code(name) == routines[name].instructions

IsUser(name) == name \in DOMAIN routines /\ routines[name].kind = "User"

\* C18: whenever run_vm is about to fetch from a User frame its index is a
\* position of that routine's instruction list, and so was the index of
\* every fetch made, which yielded the instruction at that position.  In
\* compiler output every Jump and JumpIfFalse aims at a position of its own
\* list, Return is the last instruction and the only Return, and a jump
\* taken continues in the same routine at its target.  At the start of an
\* iteration no User frame of the frame stack holds an index past the final
\* Return.
C18_FetchIndexIsValid ==
    /\ status = "running" /\ ip # <<>> /\ IsUser(routine_name)
          => cur_ip \in 0..(Len(Code(routine_name)) - 1)
    /\ \A k \in 1..Len(trace) :
          /\ trace[k].instr.op \notin {"Native", "Unknown"} =>
                /\ IsUser(trace[k].name)
                /\ trace[k].ip \in 0..(Len(Code(trace[k].name)) - 1)
                /\ Code(trace[k].name)[trace[k].ip + 1] = trace[k].instr
          /\ /\ k < Len(trace)
             /\ \/ trace[k].instr.op = "Jump"
                \/ /\ trace[k].instr.op = "JumpIfFalse"
                   /\ trace[k].stack # <<>>
                   /\ Last(trace[k].stack) = Bool(FALSE)
             => /\ trace[k + 1].name = trace[k].name
                /\ trace[k + 1].ip = trace[k].instr.pos
                /\ trace[k + 1].depth = trace[k].depth
    /\ \A name \in DOMAIN routines :
          IsUser(name) =>
            /\ Code(name) # <<>>
            /\ \A i \in 1..Len(Code(name)) :
                  /\ Code(name)[i].op \in {"Jump", "JumpIfFalse"}
                        => Code(name)[i].pos \in 0..(Len(Code(name)) - 1)
                  /\ Code(name)[i].op = "Return" <=> i = Len(Code(name))
    /\ \A d \in 1..Len(ip) :
          IsUser(ip[d][1]) => ip[d][2] \in 0..(Len(Code(ip[d][1])) - 1)

\* After a jump forward and a jump back, the run is about to fetch the final
\* Return of a routine.
C18_Witness ==
    /\ Fetch("Return")
    /\ cur_ip = Len(Code(routine_name)) - 1
    /\ \E k \in 1..Len(trace) : trace[k].instr.op = "Jump" /\ trace[k].instr.pos < trace[k].ip
    /\ \E k \in 1..Len(trace) :
          /\ trace[k].instr.op = "JumpIfFalse"
          /\ trace[k].stack # <<>>
          /\ Last(trace[k].stack) = Bool(FALSE)

----------------------------------------------------------------------------
(* The frame stack.                                                        *)

\* C19: while the run goes on the frame stack is not empty, and it was not
\* empty at the start of any iteration.  An iteration leaves it empty only by
\* a Return in the only frame, which is the last iteration and halts the VM;
\* once the VM is built the frame stack is empty only when it has halted.
C19_FrameStackEmptyOnlyAtHalt ==
    /\ status = "running" => ip # <<>>
    /\ \A k \in 1..Len(trace) :
          /\ trace[k].frames # <<>>
          /\ FramesAfter(k) = <<>> =>
                /\ trace[k].instr.op = "Return"
                /\ trace[k].depth = 1
                /\ k = Len(trace)
                /\ status = "halted"
    /\ status = "halted" => ip = <<>>
    /\ ip = <<>> => status \in {"loaded", "Missing PROGRAM routine", "halted"}

\* The VM halted with an empty frame stack after a native was called from
\* the only frame and a called routine returned.
C19_Witness ==
    /\ status = "halted" /\ ip = <<>>
    /\ \E k \in 1..Len(trace) : trace[k].instr.op = "Native" /\ trace[k].depth = 2
    /\ \E k \in 1..Len(trace) : trace[k].instr.op = "Return" /\ trace[k].depth = 2

----------------------------------------------------------------------------
(* Calls of natives.                                                       *)

\* The k-th iteration ran a Call of a native and another iteration followed.
AtNativeCall(k) ==
    /\ k < Len(trace)
    /\ trace[k].instr.op = "Call"
    /\ trace[k].instr.r \in NativeNames

\* The frame stack the k-th iteration found, its top frame moved on by one.
Resumed(k) == Append(Front(trace[k].frames), <<trace[k].name, trace[k].ip + 1>>)

\* C20: the iteration after a Call of a native runs that native, with its
\* frame on top of the caller's advanced one.  When the native returns, the
\* frame stack is the one the Call found with the caller's index advanced by
\* one, and the next iteration runs the caller's instruction after the Call.
C20_NativeLeavesNoFrame ==
    \A k \in 1..Len(trace) :
      AtNativeCall(k) =>
        /\ trace[k + 1].instr.op = "Native"
        /\ trace[k + 1].name = trace[k].instr.r
        /\ trace[k + 1].frames = Append(Resumed(k), <<trace[k].instr.r, 0>>)
        /\ StatusAfter(k + 1) = "running" =>
              /\ FramesAfter(k + 1) = Resumed(k)
              /\ k + 2 <= Len(trace) =>
                    /\ trace[k + 2].name = trace[k].name
                    /\ trace[k + 2].ip = trace[k].ip + 1
                    /\ trace[k + 2].depth = trace[k].depth
                    /\ trace[k + 2].instr = Code(trace[k].name)[trace[k].ip + 2]

\* A routine called from PROGRAM called a native, which returned, and the
\* routine went on with the instruction after the Call.
C20_Witness ==
    \E k \in 1..Len(trace) :
      /\ AtNativeCall(k)
      /\ trace[k].depth = 2
      /\ k + 2 <= Len(trace)
      /\ trace[k + 2].name = trace[k].name
      /\ trace[k + 2].ip = trace[k].ip + 1
      /\ trace[k + 2].frames = Resumed(k)

----------------------------------------------------------------------------
(* Arithmetic on fewer than two values.                                    *)

\* The k-th iteration ran Add, Sub, Mul or Div with at most one value on the stack.
AtShortArith(k) == trace[k].instr.op \in Arith /\ Len(trace[k].stack) < 2

\* C21 as stated: Add, Sub, Mul or Div with fewer than two values on the
\* stack ends the run with "Stack underflow", whatever the one value is.
C21_Stated ==
    \A k \in 1..Len(trace) :
      AtShortArith(k) => StatusAfter(k) = "Stack underflow"

\* C21, amended: Add, Sub, Mul or Div with fewer than two values on the
\* stack ends the run and pushes nothing, the one value being popped: with
\* "Stack underflow" when the stack is empty or its one value is a Number,
\* with "Invalid type" when its one value is no Number.  Arithmetic ends
\* with "Invalid type" only when a value that is present is no Number, and
\* with "Stack underflow" only when fewer than two values are present.
C21_ShortArithmeticFault ==
    \A k \in 1..Len(trace) :
      /\ AtShortArith(k) =>
            /\ k = Len(trace)
            /\ stack = <<>>
            /\ status = IF trace[k].stack = <<>> \/ trace[k].stack[1].t = "Number"
                        THEN "Stack underflow"
                        ELSE "Invalid type"
      /\ trace[k].instr.op \in Arith /\ StatusAfter(k) = "Invalid type" =>
            \E i \in 1..Len(trace[k].stack) :
              /\ i >= Len(trace[k].stack) - 1
              /\ trace[k].stack[i].t # "Number"
      /\ trace[k].instr.op \in Arith /\ StatusAfter(k) = "Stack underflow" => AtShortArith(k)

\* Add found TRUE alone on the stack: the run ended with "Invalid type".
C21_Witness ==
    /\ trace # <<>>
    /\ trace[Len(trace)].instr.op = "Add"
    /\ trace[Len(trace)].stack = <<Bool(TRUE)>>
    /\ status = "Invalid type"
    /\ stack = <<>>

\* Add found a Number alone on the stack: the run ended with "Stack underflow".
C21_NumberWitness ==
    /\ trace # <<>>
    /\ trace[Len(trace)].instr.op = "Add"
    /\ trace[Len(trace)].stack = <<Number(7)>>
    /\ status = "Stack underflow"
    /\ stack = <<>>

====
